---- MODULE Spec2Model ----
(***************************************************************************)
(* Model of build.rs of russimp-sys: strategy selection, provisioning of   *)
(* the assimp source tree (zip) or of a prebuilt package (tar.gz), the     *)
(* native build, the binding step with its config.h placeholder, and the   *)
(* emission of cargo directives.                                           *)
(*                                                                         *)
(* Paths are sequences of components relative to OUT_DIR (<<>> is OUT_DIR  *)
(* itself).  A path whose first component is "..", "/" or "$CWD" lies      *)
(* outside OUT_DIR.  The filesystem fs maps every existing path to "dir"   *)
(* or to the content of the regular file at that path.                     *)
(***************************************************************************)
EXTENDS Naturals, Sequences, FiniteSets, TLC

\* Longest archive (zip or tar) the remote side serves, in entries.
MaxEntries == 2

VARIABLES
    cfg,        \* the cargo features and target the script was compiled for
    remoteZip,  \* entries of the archive served at the source snapshot URL
    remoteTar,  \* entries of the prebuilt package (release asset or override)
    fs,         \* the filesystem
    pc,         \* position of the run in main and its callees
    result,     \* "running", "ok" (main returned) or "failed" (panicked)
    fatal,      \* the step whose fatal condition occurred in this run, or "none"
    active,     \* the strategy main dispatched to, "none" before the dispatch
    called,     \* the functions of build.rs entered in this run
    net,        \* network requests issued in this run
    emitted,    \* the cargo directives printed in this run, in order
    idx,        \* index of the next zip entry of the extraction loop
    esResult,   \* what ensure_submodules returned: "none", "ok", "err"
    esEntry,    \* the state ensure_submodules was entered in
    zipWritten, \* the temporary archive was written by this call
    cmakeOut,   \* subdirectories the native build populated
    cmakeOpts,  \* the options the native build was invoked with
    configBefore, \* config.h as the binding step found it ("absent" or content)
    bindEnded,  \* the binding step of main is over (returned or panicked)
    env,        \* RUSSIMP_PACKAGE_DIR as seen at compile time and at run time,
                \* target_env, ninja on PATH and CMAKE_GENERATOR
    lastPlan    \* the previous evaluation of lib_names (SpecPlan only)

vars == <<cfg, remoteZip, remoteTar, fs, pc, result, fatal, active, called, net,
          emitted, idx, esResult, esEntry, zipWritten, cmakeOut, cmakeOpts,
          configBefore, bindEnded, env, lastPlan>>

----------------------------------------------------------------------------
(* Configuration: cargo features and cfg!(target_...) values.              *)

TargetOs == {"linux", "macos", "windows", "other"}
TargetArch == {"aarch64", "x86_64", "other"}

Configs ==
    [build_assimp : BOOLEAN, prebuilt : BOOLEAN, static_link : BOOLEAN,
     nozlib : BOOLEAN, target_os : TargetOs, target_arch : TargetArch]

static_lib(c) == IF c.static_link THEN "static" ELSE "dylib"

build_zlib(c) == ~c.nozlib

build_assimp(c) == c.build_assimp

Library(name, kind) == [name |-> name, kind |-> kind]

(* A plausible slip: the zlib test forgets build_assimp().                  *)
lib_names_zlib_only(c) ==
    <<Library("assimp", static_lib(c))>>
    \o (IF build_zlib(c)
        THEN <<Library("zlibstatic", "static")>>
        ELSE IF c.target_os = "windows"
             THEN <<Library("zlibstatic", "dylib")>>
             ELSE <<Library("z", "dylib")>>)
    \o (IF c.target_os = "linux" THEN <<Library("stdc++", "dylib")>> ELSE <<>>)
    \o (IF c.target_os = "macos" THEN <<Library("c++", "dylib")>> ELSE <<>>)

(* A plausible slip: the C++ runtime is pushed per architecture.            *)
lib_names_arch(c) ==
    <<Library("assimp", static_lib(c))>>
    \o (IF build_assimp(c) /\ build_zlib(c)
        THEN <<Library("zlibstatic", "static")>>
        ELSE IF c.target_os = "windows"
             THEN <<Library("zlibstatic", "dylib")>>
             ELSE <<Library("z", "dylib")>>)
    \o (IF c.target_os = "linux" /\ c.target_arch # "other"
        THEN <<Library("stdc++", "dylib")>> ELSE <<>>)
    \o (IF c.target_os = "macos" THEN <<Library("c++", "dylib")>> ELSE <<>>)

lib_names(c) ==
    <<Library("assimp", static_lib(c))>>
    \o (IF build_assimp(c) /\ build_zlib(c)
        THEN <<Library("zlibstatic", "static")>>
        ELSE IF c.target_os = "windows"
             THEN <<Library("zlibstatic", "dylib")>>
             ELSE <<Library("z", "dylib")>>)
    \o (IF c.target_os = "linux" THEN <<Library("stdc++", "dylib")>> ELSE <<>>)
    \o (IF c.target_os = "macos" THEN <<Library("c++", "dylib")>> ELSE <<>>)

(* main's dispatch, lines 267-271.                                          *)
DispatchPrebuiltFirst(c) ==
    IF c.prebuilt THEN "FetchPrebuilt"
    ELSE IF build_assimp(c) THEN "BuildFromSource"
    ELSE "UseSystemInstalled"

Dispatch(c) ==
    IF build_assimp(c) THEN "BuildFromSource"
    ELSE IF c.prebuilt THEN "FetchPrebuilt"
    ELSE "UseSystemInstalled"

----------------------------------------------------------------------------
(* Paths and the filesystem.                                                *)

out_dir == <<>>
assimp_dir == <<"assimp">>
assimp_cmake == <<"assimp", "CMakeLists.txt">>
zip_path == <<"assimp.zip">>
extracted_dir == <<"assimp-master">>
bindings_rs == <<"bindings.rs">>
built_rs == <<"built.rs">>
archive_name == "russimp.tar.gz"

(* The include directory main looks for config.h in: under OUT_DIR when     *)
(* building from source, relative to the working directory otherwise.       *)
assimp_include_path(c) ==
    IF build_assimp(c)
    THEN <<"assimp", "include", "assimp">>
    ELSE <<"$CWD", "assimp", "include", "assimp">>

config_file(c) == assimp_include_path(c) \o <<"config.h">>

ar_dest_dir(c) == <<static_lib(c)>>

(* Where link_from_package looks for the archive.                           *)
ar_src_dir(e) == IF e.package_dir_build THEN <<"$PKG">> ELSE out_dir

IsPrefix(p, q) == Len(p) <= Len(q) /\ SubSeq(q, 1, Len(p)) = p

Parent(p) == SubSeq(p, 1, Len(p) - 1)

Ancestors(p) == {SubSeq(p, 1, k) : k \in 0..(Len(p) - 1)}

Exists(f, p) == p \in DOMAIN f

IsDir(f, p) == Exists(f, p) /\ f[p] = "dir"

HasChildren(f, p) == \E q \in DOMAIN f : IsPrefix(p, q) /\ q # p

CanCreateDirAll(f, p) == \A q \in Ancestors(p) \cup {p} : Exists(f, q) => f[q] = "dir"

CreateDirAll(f, p) ==
    f @@ [q \in {r \in Ancestors(p) \cup {p} : ~Exists(f, r)} |-> "dir"]

CanCreateFile(f, p) == IsDir(f, Parent(p)) /\ ~IsDir(f, p)

WriteFile(f, p, data) == (p :> data) @@ f

RemoveFile(f, p) == [q \in DOMAIN f \ {p} |-> f[q]]

RemoveTree(f, p) == [q \in {r \in DOMAIN f : ~IsPrefix(p, r)} |-> f[q]]

(* rename(2): the target must be absent or an empty directory.              *)
CanRename(f, from, to) ==
    Exists(f, from) /\ (Exists(f, to) => IsDir(f, to) /\ ~HasChildren(f, to))

Rename(f, from, to) ==
    LET moved == {q \in DOMAIN f : IsPrefix(from, q)}
        kept  == DOMAIN f \ (moved \cup {to})
        dest(q) == to \o SubSeq(q, Len(from) + 1, Len(q))
    IN  [q \in kept |-> f[q]] @@
        [r \in {dest(q) : q \in moved} |->
            f[from \o SubSeq(r, Len(to) + 1, Len(r))]]

(* How the operating system resolves base/name: ".." pops a component, and  *)
(* a ".." at OUT_DIR itself leaves it.                                      *)
RECURSIVE Resolve(_, _)
Resolve(base, name) ==
    IF name = <<>> THEN base
    ELSE IF Head(name) = ".."
         THEN IF base = <<>> \/ base[Len(base)] = ".."
              THEN Resolve(base \o <<"..">>, Tail(name))
              ELSE Resolve(Parent(base), Tail(name))
         ELSE Resolve(base \o <<Head(name)>>, Tail(name))

(* PathBuf::join: an absolute name replaces the base.                       *)
Join(base, name, abs) ==
    IF abs THEN <<"/">> \o name ELSE Resolve(base, name)

----------------------------------------------------------------------------
(* Archives.  An entry is its name (components), whether the name is        *)
(* absolute, whether it names a directory (trailing '/'), and its data.     *)

Entry(name, abs, isdir) == [name |-> name, abs |-> abs, isdir |-> isdir, data |-> "src"]

ZipEntries ==
    { Entry(<<"assimp-master", "CMakeLists.txt">>, FALSE, FALSE),
      Entry(<<"assimp-master", "include", "assimp">>, FALSE, TRUE),
      Entry(<<"assimp", "CMakeLists.txt">>, FALSE, FALSE),
      Entry(<<"..", "evil">>, FALSE, FALSE),
      Entry(<<"evil">>, TRUE, FALSE) }

TarEntries ==
    { Entry(<<"lib", "libassimp.a">>, FALSE, FALSE),
      Entry(<<"bin">>, FALSE, TRUE),
      Entry(<<"..", "evil">>, FALSE, FALSE),
      Entry(<<"evil">>, TRUE, FALSE) }

SeqsUpTo(S, n) == UNION {[1..k -> S] : k \in 0..n}

ZipArchives == SeqsUpTo(ZipEntries, MaxEntries)

TarArchives == SeqsUpTo(TarEntries, MaxEntries)

(* A snapshot as the hosting service packs it: every entry under the single *)
(* root directory assimp-master.                                            *)
RootedZipArchives ==
    {a \in ZipArchives :
        \A i \in 1..Len(a) : ~a[i].abs /\ a[i].name[1] = "assimp-master"}

PlainTarArchives ==
    {a \in TarArchives : \A i \in 1..Len(a) : ~a[i].abs /\ a[i].name[1] # ".."}

None == [some |-> FALSE, path |-> <<>>]
Some(p) == [some |-> TRUE, path |-> p]

(* zip's enclosed_name: None for an absolute name or one that climbs above  *)
(* its root.                                                                *)
RECURSIVE Enclosed(_, _)
Enclosed(name, depth) ==
    IF name = <<>> THEN TRUE
    ELSE IF Head(name) = ".."
         THEN depth > 0 /\ Enclosed(Tail(name), depth - 1)
         ELSE Enclosed(Tail(name), depth + 1)

enclosed_name(e) ==
    IF e.abs \/ ~Enclosed(e.name, 0) THEN None ELSE Some(e.name)

(* The extraction loop without the enclosed_name test.                      *)
ZipOutPathRaw(e) == Some(Join(out_dir, e.name, e.abs))

(* Lines 167-170: the destination of a zip entry, or None to skip it.       *)
ZipOutPath(e) ==
    IF enclosed_name(e).some
    THEN Some(Join(out_dir, enclosed_name(e).path, FALSE))
    ELSE None

(* One turn of the extraction loop on filesystem f.  out is what happens    *)
(* to the entry: "ok", "corrupt" (by_index fails) or "io" (creating or      *)
(* copying fails; a file already created stays, truncated).                 *)
ExtractEntry(f, e, out) ==
    LET t == ZipOutPath(e)
        p == t.path
        parentOk == CanCreateDirAll(f, Parent(p))
        g == IF Exists(f, Parent(p)) THEN f ELSE CreateDirAll(f, Parent(p))
    IN  IF out = "corrupt" THEN [fs |-> f, err |-> TRUE]
        ELSE IF ~t.some THEN [fs |-> f, err |-> FALSE]
        ELSE IF e.isdir
             THEN IF out = "ok" /\ CanCreateDirAll(f, p)
                  THEN [fs |-> CreateDirAll(f, p), err |-> FALSE]
                  ELSE [fs |-> f, err |-> TRUE]
        ELSE IF ~parentOk THEN [fs |-> f, err |-> TRUE]
        ELSE IF ~CanCreateFile(g, p) THEN [fs |-> g, err |-> TRUE]
        ELSE IF out = "io" THEN [fs |-> WriteFile(g, p, "partial"), err |-> TRUE]
        ELSE [fs |-> WriteFile(g, p, e.data), err |-> FALSE]

(* tar's Entry::unpack_in: root components are dropped, an entry with a     *)
(* ".." component is skipped.                                               *)
TarOutPath(dst, e) ==
    IF \E i \in 1..Len(e.name) : e.name[i] = ".."
    THEN None
    ELSE Some(dst \o e.name)

TarUnpackEntry(f, dst, e) ==
    LET t == TarOutPath(dst, e)
    IN  IF ~t.some THEN f
        ELSE IF e.isdir THEN CreateDirAll(f, t.path)
        ELSE WriteFile(CreateDirAll(f, Parent(t.path)), t.path, e.data)

RECURSIVE TarUnpack(_, _, _)
TarUnpack(f, dst, entries) ==
    IF entries = <<>> THEN f
    ELSE TarUnpack(TarUnpackEntry(f, dst, Head(entries)), dst, Tail(entries))

----------------------------------------------------------------------------
(* Directives printed for cargo.                                            *)

Search(path) == [kind |-> "search", name |-> path, link |-> "native"]

LinkLib(l) == [kind |-> "lib", name |-> l.name, link |-> l.kind]

DirString(dir, sub) ==
    CASE dir = "static" /\ sub = "lib" -> "OUT_DIR/static/lib"
      [] dir = "static" /\ sub = "bin" -> "OUT_DIR/static/bin"
      [] dir = "dylib" /\ sub = "lib" -> "OUT_DIR/dylib/lib"
      [] dir = "dylib" /\ sub = "bin" -> "OUT_DIR/dylib/bin"

(* Lines 259-265: the Homebrew search path on macOS.                        *)
BrewDirectives(c) ==
    IF c.target_os = "macos" /\ c.target_arch = "aarch64"
    THEN <<Search("/opt/homebrew/lib/")>>
    ELSE IF c.target_os = "macos" /\ c.target_arch = "x86_64"
         THEN <<Search("/opt/brew/lib/")>>
         ELSE <<>>

(* A provisioner that announces its lib directory only.                     *)
SearchDirectivesLibOnly(dir) == <<Search(DirString(dir, "lib"))>>

(* Lines 119-127 and 244-252: lib, then bin, of the artifact directory.     *)
SearchDirectives(dir) ==
    <<Search(DirString(dir, "lib")), Search(DirString(dir, "bin"))>>

(* Lines 326-328.                                                           *)
LinkDirectives(c) == [i \in 1..Len(lib_names(c)) |-> LinkLib(lib_names(c)[i])]

(* Lines 86-109: the options handed to cmake.                               *)
NoOpts ==
    [BUILD_SHARED_LIBS |-> "none", ASSIMP_BUILD_ASSIMP_TOOLS |-> "none",
     ASSIMP_BUILD_TESTS |-> "none", ASSIMP_BUILD_ZLIB |-> "none",
     ASSIMP_WARNINGS_AS_ERRORS |-> "none", LIBRARY_SUFFIX |-> "none",
     out_dir |-> "none", cflags |-> <<>>, cxxflags |-> <<>>,
     generator |-> "none"]

(* Every library is built shared.                                           *)
CMakeDefinesAllShared(c) ==
    [BUILD_SHARED_LIBS |-> "ON",
     ASSIMP_BUILD_ASSIMP_TOOLS |-> "OFF",
     ASSIMP_BUILD_TESTS |-> "OFF",
     ASSIMP_BUILD_ZLIB |-> IF build_zlib(c) THEN "ON" ELSE "OFF",
     ASSIMP_WARNINGS_AS_ERRORS |-> "OFF",
     LIBRARY_SUFFIX |-> "",
     out_dir |-> static_lib(c)]

(* zlib is built with assimp whatever the nozlib feature says.              *)
CMakeDefinesZlibOn(c) ==
    [BUILD_SHARED_LIBS |-> IF static_lib(c) = "static" THEN "OFF" ELSE "ON",
     ASSIMP_BUILD_ASSIMP_TOOLS |-> "OFF",
     ASSIMP_BUILD_TESTS |-> "OFF",
     ASSIMP_BUILD_ZLIB |-> "ON",
     ASSIMP_WARNINGS_AS_ERRORS |-> "OFF",
     LIBRARY_SUFFIX |-> "",
     out_dir |-> static_lib(c)]

CMakeDefines(c) ==
    [BUILD_SHARED_LIBS |-> IF static_lib(c) = "static" THEN "OFF" ELSE "ON",
     ASSIMP_BUILD_ASSIMP_TOOLS |-> "OFF",
     ASSIMP_BUILD_TESTS |-> "OFF",
     ASSIMP_BUILD_ZLIB |-> IF build_zlib(c) THEN "ON" ELSE "OFF",
     ASSIMP_WARNINGS_AS_ERRORS |-> "OFF",
     LIBRARY_SUFFIX |-> "",
     out_dir |-> static_lib(c)]

(* The flag reaches the C compiler only and Ninja is taken for granted.     *)
compiler_flags_c_only(e) ==
    [cflags    |-> IF e.msvc THEN <<"/EHsc">> ELSE <<>>,
     cxxflags  |-> <<>>,
     generator |-> IF e.msvc THEN "Ninja" ELSE e.generator]

(* Lines 23-36 and 111-115: the flags of compiler_flags, each handed to     *)
(* cmake as C and as C++ flag, and CMAKE_GENERATOR as the call leaves it.   *)
compiler_flags(e) ==
    [cflags    |-> IF e.msvc THEN <<"/EHsc">> ELSE <<>>,
     cxxflags  |-> IF e.msvc THEN <<"/EHsc">> ELSE <<>>,
     generator |-> IF e.msvc /\ e.ninja THEN "Ninja" ELSE e.generator]

(* Lines 96-115: the whole configuration cmake.build() runs with.           *)
CMakeConfig(c, e) ==
    LET d == CMakeDefines(c)
        t == compiler_flags(e)
    IN  [BUILD_SHARED_LIBS |-> d.BUILD_SHARED_LIBS,
         ASSIMP_BUILD_ASSIMP_TOOLS |-> d.ASSIMP_BUILD_ASSIMP_TOOLS,
         ASSIMP_BUILD_TESTS |-> d.ASSIMP_BUILD_TESTS,
         ASSIMP_BUILD_ZLIB |-> d.ASSIMP_BUILD_ZLIB,
         ASSIMP_WARNINGS_AS_ERRORS |-> d.ASSIMP_WARNINGS_AS_ERRORS,
         LIBRARY_SUFFIX |-> d.LIBRARY_SUFFIX,
         out_dir |-> d.out_dir,
         cflags |-> t.cflags, cxxflags |-> t.cxxflags,
         generator |-> t.generator]

----------------------------------------------------------------------------
(* Initial states.                                                          *)

NoFs == [p \in {} |-> "dir"]

EmptyOutDir == (out_dir :> "dir")

(* No override, a toolchain that is not MSVC, no ninja on PATH and          *)
(* CMAKE_GENERATOR unset.                                                   *)
NoEnv ==
    [package_dir_build |-> FALSE, package_dir_run |-> FALSE,
     msvc |-> FALSE, ninja |-> FALSE, generator |-> "unset"]

Envs ==
    [package_dir_build : BOOLEAN, package_dir_run : BOOLEAN,
     msvc : {FALSE}, ninja : {FALSE}, generator : {"unset"}]

(* The toolchains of a target: target_env is msvc on Windows only; ninja    *)
(* may or may not be on PATH; CMAKE_GENERATOR may be preset by the user.    *)
ToolEnvs(c) ==
    [package_dir_build : {FALSE}, package_dir_run : {FALSE},
     msvc : IF c.target_os = "windows" THEN BOOLEAN ELSE {FALSE},
     ninja : BOOLEAN,
     generator : {"unset", "NMake Makefiles"}]

(* The checkout the script runs in: without the assimp submodule, with it,  *)
(* or with it and a config.h of its own.                                    *)
CwdStates ==
    { NoFs,
      CreateDirAll(NoFs, <<"$CWD", "assimp", "include", "assimp">>),
      WriteFile(CreateDirAll(NoFs, <<"$CWD", "assimp", "include", "assimp">>),
                <<"$CWD", "assimp", "include", "assimp", "config.h">>, "cfg") }

(* The override directory: with or without the package in it.               *)
PkgStates ==
    { (<<"$PKG">> :> "dir"),
      (<<"$PKG">> :> "dir") @@ (<<"$PKG", archive_name>> :> "tar") }

InitRun ==
    /\ pc = "main"
    /\ result = "running"
    /\ fatal = "none"
    /\ active = "none"
    /\ called = {}
    /\ net = 0
    /\ emitted = <<>>
    /\ idx = 0
    /\ esResult = "none"
    /\ esEntry = [marker |-> FALSE, fs |-> NoFs, net |-> 0]
    /\ zipWritten = FALSE
    /\ cmakeOut = {}
    /\ cmakeOpts = NoOpts
    /\ configBefore = "unknown"
    /\ bindEnded = FALSE
    /\ lastPlan = [cfg |-> cfg, plan |-> <<>>, valid |-> FALSE]

InitFs(zips, tars) ==
    /\ remoteZip \in (IF Dispatch(cfg) = "BuildFromSource" THEN zips ELSE {<<>>})
    /\ remoteTar \in (IF Dispatch(cfg) = "FetchPrebuilt" THEN tars ELSE {<<>>})
    /\ env \in (IF Dispatch(cfg) = "FetchPrebuilt" THEN Envs ELSE {NoEnv})
    /\ \E cwd \in (IF build_assimp(cfg) THEN {NoFs} ELSE CwdStates) :
       \E pkg \in (IF env.package_dir_build /\ env.package_dir_run
                   THEN PkgStates ELSE {NoFs}) :
          fs = EmptyOutDir @@ cwd @@ pkg

(* Every configuration, with archives as the hosting services pack them.    *)
Init ==
    /\ cfg \in Configs
    /\ InitFs(RootedZipArchives, PlainTarArchives)
    /\ InitRun

----------------------------------------------------------------------------
(* main and its callees.                                                    *)

fixed == <<cfg, remoteZip, remoteTar, env, lastPlan>>

Panic(step) ==
    /\ pc' = "done"
    /\ result' = "failed"
    /\ fatal' = step

(* Lines 255-271: the Homebrew directive, then the dispatch.                *)
Main_Dispatch ==
    /\ pc = "main"
    /\ emitted' = emitted \o BrewDirectives(cfg)
    /\ active' = Dispatch(cfg)
    /\ called' = called \cup
          (CASE active' = "BuildFromSource" -> {"main", "build_from_source"}
             [] active' = "FetchPrebuilt" -> {"main", "link_from_package"}
             [] OTHER -> {"main"})
    /\ pc' = (CASE active' = "BuildFromSource" -> "bfs_ensure"
                [] active' = "FetchPrebuilt" -> "lfp_locate"
                [] OTHER -> "bind_check")
    /\ UNCHANGED <<fixed, fs, result, fatal, net, idx, esResult, esEntry,
                   zipWritten, cmakeOut, cmakeOpts, configBefore, bindEnded>>

(* The marker test that always asks for a fresh clone.                      *)
NeedsCloneAlways(f) == TRUE

(* Line 141.                                                                *)
NeedsClone(f) == ~Exists(f, assimp_cmake)

ES_Return(r, step) ==
    /\ pc' = "bfs_match"
    /\ esResult' = r
    /\ fatal' = step

(* Lines 133-141 and 199: entry, and the short circuit on the marker.       *)
ES_Check ==
    /\ pc = "bfs_ensure"
    /\ called' = called \cup {"ensure_submodules"}
    /\ esEntry' = [marker |-> Exists(fs, assimp_cmake), fs |-> fs, net |-> net]
    /\ IF NeedsClone(fs)
       THEN pc' = "es_remove" /\ UNCHANGED <<esResult, fatal>>
       ELSE ES_Return("ok", fatal)
    /\ UNCHANGED <<fixed, fs, result, active, net, emitted, idx, zipWritten,
                   cmakeOut, cmakeOpts, configBefore, bindEnded>>

(* The stale directory is left where it is.                                 *)
StaleKept(f) == f

(* Line 146: remove_dir_all on the target directory.                        *)
StaleRemoved(f) == RemoveTree(f, assimp_dir)

(* Lines 145-147.                                                           *)
ES_RemoveStale ==
    /\ pc = "es_remove"
    /\ \E ok \in BOOLEAN :
          IF ~Exists(fs, assimp_dir)
          THEN pc' = "es_fetch" /\ UNCHANGED <<fs, esResult, fatal>>
          ELSE IF ok
               THEN /\ fs' = StaleRemoved(fs)
                    /\ pc' = "es_fetch"
                    /\ UNCHANGED <<esResult, fatal>>
               ELSE ES_Return("err", "remove_stale") /\ UNCHANGED fs
    /\ UNCHANGED <<fixed, result, active, called, net, emitted, idx, esEntry,
                   zipWritten, cmakeOut, cmakeOpts, configBefore, bindEnded>>

(* A failed request is issued again.                                        *)
AfterFetchRetry(ok) == IF ok THEN "es_write" ELSE "es_fetch"

(* Lines 153-158: each `?` of the request returns the error to the caller.  *)
AfterFetch(ok) == IF ok THEN "es_write" ELSE "bfs_match"

(* Lines 149-158: one request, no retry.                                    *)
ES_Fetch ==
    /\ pc = "es_fetch"
    /\ net' = net + 1
    /\ \E ok \in BOOLEAN :
          /\ pc' = AfterFetch(ok)
          /\ esResult' = IF ok THEN esResult ELSE "err"
          /\ fatal' = IF ok THEN fatal ELSE "fetch"
    /\ UNCHANGED <<fixed, fs, result, active, called, emitted, idx, esEntry,
                   zipWritten, cmakeOut, cmakeOpts, configBefore, bindEnded>>

(* Line 159: the temporary archive; a failed write may leave a torso.       *)
ES_WriteZip ==
    /\ pc = "es_write"
    /\ \E out \in {"ok", "fail", "partial"} :
          CASE out = "ok" ->
                 /\ fs' = WriteFile(fs, zip_path, "zip")
                 /\ zipWritten' = TRUE
                 /\ pc' = "es_open"
                 /\ UNCHANGED <<esResult, fatal>>
            [] out = "fail" ->
                 /\ ES_Return("err", "zip_write")
                 /\ UNCHANGED <<fs, zipWritten>>
            [] out = "partial" ->
                 /\ fs' = WriteFile(fs, zip_path, "partial")
                 /\ ES_Return("err", "zip_write")
                 /\ UNCHANGED zipWritten
    /\ UNCHANGED <<fixed, result, active, called, net, emitted, idx, esEntry,
                   cmakeOut, cmakeOpts, configBefore, bindEnded>>

(* Lines 163-164.                                                           *)
ES_Open ==
    /\ pc = "es_open"
    /\ \E ok \in BOOLEAN :
          IF ok
          THEN pc' = "es_extract" /\ idx' = 1 /\ UNCHANGED <<esResult, fatal>>
          ELSE ES_Return("err", "zip_open") /\ UNCHANGED idx
    /\ UNCHANGED <<fixed, fs, result, active, called, net, emitted, esEntry,
                   zipWritten, cmakeOut, cmakeOpts, configBefore, bindEnded>>

(* Lines 165-183: one entry of the archive.                                 *)
ES_Extract ==
    /\ pc = "es_extract"
    /\ idx <= Len(remoteZip)
    /\ \E out \in {"ok", "corrupt", "io"} :
          LET r == ExtractEntry(fs, remoteZip[idx], out)
          IN  /\ fs' = r.fs
              /\ IF r.err
                 THEN ES_Return("err", "extract") /\ UNCHANGED idx
                 ELSE idx' = idx + 1 /\ UNCHANGED <<pc, esResult, fatal>>
    /\ UNCHANGED <<fixed, result, active, called, net, emitted, esEntry,
                   zipWritten, cmakeOut, cmakeOpts, configBefore, bindEnded>>

(* Lines 185-188.                                                           *)
ES_Rename ==
    /\ pc = "es_extract"
    /\ idx > Len(remoteZip)
    /\ \E ok \in BOOLEAN :
          IF ~Exists(fs, extracted_dir)
          THEN pc' = "es_cleanup" /\ UNCHANGED <<fs, esResult, fatal>>
          ELSE IF ok /\ CanRename(fs, extracted_dir, assimp_dir)
               THEN /\ fs' = Rename(fs, extracted_dir, assimp_dir)
                    /\ pc' = "es_cleanup"
                    /\ UNCHANGED <<esResult, fatal>>
               ELSE ES_Return("err", "rename") /\ UNCHANGED fs
    /\ UNCHANGED <<fixed, result, active, called, net, emitted, idx, esEntry,
                   zipWritten, cmakeOut, cmakeOpts, configBefore, bindEnded>>

(* A re-check that takes the extraction at its word.                        *)
MarkerMissingNever(f) == FALSE

(* Line 192.                                                                *)
MarkerMissing(f) == ~Exists(f, assimp_cmake)

(* Lines 190-199: best-effort removal of the archive, then the marker.      *)
ES_Cleanup ==
    /\ pc = "es_cleanup"
    /\ \E removed \in BOOLEAN :
          fs' = IF removed THEN RemoveFile(fs, zip_path) ELSE fs
    /\ IF MarkerMissing(fs')
       THEN ES_Return("err", "marker")
       ELSE ES_Return("ok", fatal)
    /\ UNCHANGED <<fixed, result, active, called, net, emitted, idx, esEntry,
                   zipWritten, cmakeOut, cmakeOpts, configBefore, bindEnded>>

(* Lines 68-84.                                                             *)
BFS_Match ==
    /\ pc = "bfs_match"
    /\ IF esResult = "err"
       THEN Panic(fatal)
       ELSE pc' = "bfs_cmake" /\ UNCHANGED <<result, fatal>>
    /\ UNCHANGED <<fixed, fs, active, called, net, emitted, idx, esResult,
                   esEntry, zipWritten, cmakeOut, cmakeOpts, configBefore,
                   bindEnded>>

(* Lines 86-127: the native build and the two search paths.                 *)
BFS_CMake ==
    /\ pc = "bfs_cmake"
    /\ cmakeOpts' = CMakeConfig(cfg, env)
    /\ \E ok \in BOOLEAN, bin \in BOOLEAN :
          IF ok
          THEN /\ cmakeOut' = IF bin THEN {"lib", "bin"} ELSE {"lib"}
               /\ fs' = [d \in {ar_dest_dir(cfg) \o <<x>> : x \in cmakeOut'} |-> "dir"]
                        @@ CreateDirAll(fs, ar_dest_dir(cfg))
               /\ emitted' = emitted \o SearchDirectives(static_lib(cfg))
               /\ pc' = "bind_check"
               /\ UNCHANGED <<result, fatal>>
          ELSE /\ Panic("cmake")
               /\ UNCHANGED <<cmakeOut, fs, emitted>>
    /\ UNCHANGED <<fixed, active, called, net, idx, esResult, esEntry,
                   zipWritten, configBefore, bindEnded>>

(* Lines 202-226: the override directory, else the cache in OUT_DIR.        *)
LFP_Locate ==
    /\ pc = "lfp_locate"
    /\ IF env.package_dir_build
       THEN IF env.package_dir_run
            THEN pc' = "lfp_unpack" /\ UNCHANGED <<result, fatal>>
            ELSE Panic("package_dir")
       ELSE /\ pc' = IF Exists(fs, out_dir \o <<archive_name>>)
                     THEN "lfp_unpack" ELSE "lfp_fetch"
            /\ UNCHANGED <<result, fatal>>
    /\ UNCHANGED <<fixed, fs, active, called, net, emitted, idx, esResult,
                   esEntry, zipWritten, cmakeOut, cmakeOpts, configBefore,
                   bindEnded>>

(* Lines 227-231: the release asset is fetched into the cache; the status   *)
(* of the response is not looked at.                                        *)
LFP_Fetch ==
    /\ pc = "lfp_fetch"
    /\ net' = net + 1
    /\ \E out \in {"ok", "transport", "http_error", "nofile", "partial"} :
          LET cache == out_dir \o <<archive_name>>
          IN  CASE out = "ok" ->
                     /\ fs' = WriteFile(fs, cache, "tar")
                     /\ pc' = "lfp_unpack"
                     /\ UNCHANGED <<result, fatal>>
                [] out = "http_error" ->
                     /\ fs' = WriteFile(fs, cache, "errpage")
                     /\ pc' = "lfp_unpack"
                     /\ UNCHANGED <<result, fatal>>
                [] out = "transport" -> Panic("fetch") /\ UNCHANGED fs
                [] out = "nofile" -> Panic("cache_write") /\ UNCHANGED fs
                [] out = "partial" ->
                     /\ fs' = WriteFile(fs, cache, "partial")
                     /\ Panic("cache_write")
    /\ UNCHANGED <<fixed, active, called, emitted, idx, esResult, esEntry,
                   zipWritten, cmakeOut, cmakeOpts, configBefore, bindEnded>>

(* Lines 236-252: unpack k entries, all of them unless reading fails, then  *)
(* the two search paths.                                                    *)
LFP_Unpack ==
    /\ pc = "lfp_unpack"
    /\ LET path == ar_src_dir(env) \o <<archive_name>>
           dst  == ar_dest_dir(cfg)
       IN  IF ~Exists(fs, path)
           THEN Panic("archive_open") /\ UNCHANGED <<fs, emitted>>
           ELSE \E k \in 0..Len(remoteTar) :
                  LET n == IF fs[path] = "errpage" THEN 0 ELSE k
                      g == TarUnpack(CreateDirAll(fs, dst), dst, SubSeq(remoteTar, 1, n))
                  IN  /\ fs' = g
                      /\ IF fs[path] = "tar" /\ k = Len(remoteTar)
                         THEN /\ emitted' = emitted \o SearchDirectives(static_lib(cfg))
                              /\ pc' = "bind_check"
                              /\ UNCHANGED <<result, fatal>>
                         ELSE Panic("unpack") /\ UNCHANGED emitted
    /\ UNCHANGED <<fixed, active, called, net, idx, esResult, esEntry,
                   zipWritten, cmakeOut, cmakeOpts, configBefore, bindEnded>>

(* Lines 273-291: config.h is looked for and, if absent, written empty.     *)
Bind_Check ==
    /\ pc = "bind_check"
    /\ LET cf == config_file(cfg)
       IN  /\ configBefore' = IF Exists(fs, cf) THEN fs[cf] ELSE "absent"
           /\ IF Exists(fs, cf)
              THEN pc' = "bind_generate" /\ UNCHANGED <<fs, result, fatal, bindEnded>>
              ELSE \E ok \in BOOLEAN :
                     IF ok /\ CanCreateFile(fs, cf)
                     THEN /\ fs' = WriteFile(fs, cf, "")
                          /\ pc' = "bind_generate"
                          /\ UNCHANGED <<result, fatal, bindEnded>>
                     ELSE /\ Panic("placeholder")
                          /\ bindEnded' = TRUE
                          /\ UNCHANGED fs
    /\ UNCHANGED <<fixed, active, called, net, emitted, idx, esResult, esEntry,
                   zipWritten, cmakeOut, cmakeOpts>>

(* Lines 293-309: generate() and write_to_file(), both fatal on error.      *)
Bind_Generate ==
    /\ pc = "bind_generate"
    /\ \E out \in {"ok", "generate", "write"} :
          IF out = "ok"
          THEN /\ fs' = WriteFile(fs, bindings_rs, "bindings")
               /\ pc' = "bind_cleanup"
               /\ UNCHANGED <<result, fatal, bindEnded>>
          ELSE /\ Panic(IF out = "generate" THEN "bindgen" ELSE "bindings_write")
               /\ bindEnded' = TRUE
               /\ UNCHANGED fs
    /\ UNCHANGED <<fixed, active, called, net, emitted, idx, esResult, esEntry,
                   zipWritten, cmakeOut, cmakeOpts, configBefore>>

(* Lines 311-314: the placeholder is removed, errors ignored.               *)
Bind_Cleanup ==
    /\ pc = "bind_cleanup"
    /\ \E removed \in BOOLEAN :
          fs' = IF configBefore = "absent" /\ removed
                THEN RemoveFile(fs, config_file(cfg))
                ELSE fs
    /\ bindEnded' = TRUE
    /\ pc' = "built"
    /\ UNCHANGED <<fixed, result, fatal, active, called, net, emitted, idx,
                   esResult, esEntry, zipWritten, cmakeOut, cmakeOpts,
                   configBefore>>

(* A metadata step whose error is dropped.                                  *)
BuiltStepIgnored(ok) == "emit"

(* Lines 323-324: unwrap().                                                 *)
BuiltStep(ok) == IF ok THEN "emit" ELSE "panic"

(* Lines 316-324: the build-metadata file.                                  *)
Built ==
    /\ pc = "built"
    /\ \E ok \in BOOLEAN :
          IF BuiltStep(ok) = "emit"
          THEN /\ fs' = IF ok THEN WriteFile(fs, built_rs, "built") ELSE fs
               /\ fatal' = IF ok THEN fatal ELSE "built"
               /\ pc' = "emit"
               /\ UNCHANGED result
          ELSE Panic("built") /\ UNCHANGED fs
    /\ UNCHANGED <<fixed, active, called, net, emitted, idx, esResult, esEntry,
                   zipWritten, cmakeOut, cmakeOpts, configBefore, bindEnded>>

(* Lines 326-329: one link directive per library, then main returns.        *)
Emit_Links ==
    /\ pc = "emit"
    /\ emitted' = emitted \o LinkDirectives(cfg)
    /\ pc' = "done"
    /\ result' = "ok"
    /\ UNCHANGED <<fixed, fs, fatal, active, called, net, idx, esResult,
                   esEntry, zipWritten, cmakeOut, cmakeOpts, configBefore,
                   bindEnded>>

(* cargo runs the script again on the same OUT_DIR.                         *)
NewRun ==
    /\ pc = "done"
    /\ pc' = "main"
    /\ result' = "running"
    /\ fatal' = "none"
    /\ active' = "none"
    /\ called' = {}
    /\ net' = 0
    /\ emitted' = <<>>
    /\ idx' = 0
    /\ esResult' = "none"
    /\ esEntry' = [marker |-> FALSE, fs |-> NoFs, net |-> 0]
    /\ zipWritten' = FALSE
    /\ cmakeOut' = {}
    /\ cmakeOpts' = NoOpts
    /\ configBefore' = "unknown"
    /\ bindEnded' = FALSE
    /\ UNCHANGED <<fixed, fs>>

Next ==
    \/ Main_Dispatch
    \/ ES_Check
    \/ ES_RemoveStale
    \/ ES_Fetch
    \/ ES_WriteZip
    \/ ES_Open
    \/ ES_Extract
    \/ ES_Rename
    \/ ES_Cleanup
    \/ BFS_Match
    \/ BFS_CMake
    \/ LFP_Locate
    \/ LFP_Fetch
    \/ LFP_Unpack
    \/ Bind_Check
    \/ Bind_Generate
    \/ Bind_Cleanup
    \/ Built
    \/ Emit_Links
    \/ NewRun

Spec == Init /\ [][Next]_vars

----------------------------------------------------------------------------
(* The provisioners against whatever archive the network delivers: one      *)
(* source-build and one prebuilt configuration, every archive of up to      *)
(* MaxEntries entries.                                                      *)

ArchiveConfigs ==
    {c \in Configs : /\ c.target_os = "linux" /\ c.target_arch = "x86_64"
                     /\ c.static_link /\ ~c.nozlib
                     /\ c.build_assimp # c.prebuilt}

InitArchives ==
    /\ cfg \in ArchiveConfigs
    /\ InitFs(ZipArchives, TarArchives)
    /\ InitRun

SpecArchives == InitArchives /\ [][Next]_vars

(* Windows and Linux builds of every strategy under every toolchain.        *)
ToolchainConfigs ==
    {c \in Configs : /\ c.target_os \in {"windows", "linux"}
                     /\ c.target_arch = "x86_64"
                     /\ c.static_link /\ ~c.nozlib}

InitToolchain ==
    /\ cfg \in ToolchainConfigs
    /\ remoteZip \in (IF Dispatch(cfg) = "BuildFromSource"
                      THEN RootedZipArchives ELSE {<<>>})
    /\ remoteTar \in (IF Dispatch(cfg) = "FetchPrebuilt"
                      THEN PlainTarArchives ELSE {<<>>})
    /\ env \in (IF Dispatch(cfg) = "BuildFromSource" THEN ToolEnvs(cfg) ELSE {NoEnv})
    /\ \E cwd \in (IF build_assimp(cfg) THEN {NoFs} ELSE CwdStates) :
          fs = EmptyOutDir @@ cwd
    /\ InitRun

SpecToolchain == InitToolchain /\ [][Next]_vars

----------------------------------------------------------------------------
(* The link plan alone: lib_names evaluated for one configuration after     *)
(* another, the previous evaluation remembered.                             *)

InitPlan ==
    /\ cfg \in Configs
    /\ remoteZip = <<>>
    /\ remoteTar = <<>>
    /\ env = NoEnv
    /\ fs = EmptyOutDir
    /\ InitRun

(* Lines 326-328 of a build with configuration cfg.                         *)
Plan_Eval ==
    /\ pc = "main"
    /\ emitted' = LinkDirectives(cfg)
    /\ pc' = "done"
    /\ result' = "ok"
    /\ UNCHANGED <<fixed, fs, fatal, active, called, net, idx, esResult,
                   esEntry, zipWritten, cmakeOut, cmakeOpts, configBefore,
                   bindEnded>>

(* The next build, of any configuration.                                    *)
Plan_Next ==
    /\ pc = "done"
    /\ lastPlan' = [cfg |-> cfg, plan |-> emitted, valid |-> TRUE]
    /\ cfg' \in Configs
    /\ emitted' = <<>>
    /\ pc' = "main"
    /\ result' = "running"
    /\ UNCHANGED <<remoteZip, remoteTar, env, fs, fatal, active, called, net,
                   idx, esResult, esEntry, zipWritten, cmakeOut, cmakeOpts,
                   configBefore, bindEnded>>

NextPlan == Plan_Eval \/ Plan_Next

SpecPlan == InitPlan /\ [][NextPlan]_vars

----------------------------------------------------------------------------
(* Properties.                                                              *)

IsLinkDirective(d) == d.kind = "lib"

LinkPart(ds) == SelectSeq(ds, IsLinkDirective)

NoDuplicateNames(ds) ==
    \A i, j \in 1..Len(ds) : ds[i].name = ds[j].name => i = j

(* C1: exactly one strategy is active in a run: BuildFromSource when the    *)
(* build-from-source flag is set (also together with prebuilt),             *)
(* FetchPrebuilt when only prebuilt is set, UseSystemInstalled when neither *)
(* is set; the provisioners of the other strategies are never entered and   *)
(* never act.                                                               *)
C1_OneStrategy ==
    /\ active = "none" => called = {} /\ pc = "main"
    /\ active # "none" =>
          /\ cfg.build_assimp => active = "BuildFromSource"
          /\ ~cfg.build_assimp /\ cfg.prebuilt => active = "FetchPrebuilt"
          /\ ~cfg.build_assimp /\ ~cfg.prebuilt => active = "UseSystemInstalled"
    /\ active # "BuildFromSource" =>
          /\ called \cap {"build_from_source", "ensure_submodules"} = {}
          /\ pc \notin {"bfs_ensure", "es_remove", "es_fetch", "es_write", "es_open",
                        "es_extract", "es_cleanup", "bfs_match", "bfs_cmake"}
          /\ cmakeOpts = NoOpts /\ esResult = "none"
    /\ active # "FetchPrebuilt" =>
          /\ "link_from_package" \notin called
          /\ pc \notin {"lfp_locate", "lfp_fetch", "lfp_unpack"}

C1_Witness ==
    /\ cfg.build_assimp /\ cfg.prebuilt
    /\ pc = "done" /\ result = "ok"
    /\ called = {"main", "build_from_source", "ensure_submodules"}

(* C2: when the marker file exists as ensure_submodules is called, it       *)
(* returns the source path with no network request issued and with the      *)
(* filesystem exactly as it found it.                                       *)
C2_Idempotent ==
    (pc = "bfs_match" /\ esEntry.marker) =>
        /\ esResult = "ok"
        /\ net = esEntry.net /\ net = 0
        /\ fs = esEntry.fs

C2_Witness ==
    /\ pc = "bfs_match" /\ esEntry.marker
    /\ Exists(fs, assimp_cmake)
    /\ "ensure_submodules" \in called

(* C3: whenever ensure_submodules returns an error, the marker file         *)
(* OUT_DIR/assimp/CMakeLists.txt is absent.                                 *)
C3_MarkerAbsentAfterFailure ==
    (pc = "bfs_match" /\ esResult = "err") => ~Exists(fs, assimp_cmake)

(* C4: once the binding step is over, on success and on every failure, a    *)
(* config.h that was absent before it is absent again, and one that was     *)
(* there is there with its content.                                         *)
C4_ConfigRestored ==
    bindEnded =>
        IF configBefore = "absent"
        THEN ~Exists(fs, config_file(cfg))
        ELSE Exists(fs, config_file(cfg)) /\ fs[config_file(cfg)] = configBefore

(* C5: lib_names is the sequence of the Link Plan rules: assimp with the    *)
(* selected link kind; zlibstatic static when building from source with the *)
(* embedded zlib, else zlibstatic dynamic on Windows and z dynamic          *)
(* elsewhere; then stdc++ dynamic on Linux, c++ dynamic on macOS, nothing   *)
(* on other platforms.                                                      *)
C5_LinkPlanRules ==
    (pc = "done" /\ result = "ok") =>
        LET kind == IF cfg.static_link THEN "static" ELSE "dylib"
            n == Len(emitted)
        IN  /\ n \in {2, 3}
            /\ emitted[1] = [kind |-> "lib", name |-> "assimp", link |-> kind]
            /\ emitted[2] =
                 (IF cfg.build_assimp /\ ~cfg.nozlib
                  THEN [kind |-> "lib", name |-> "zlibstatic", link |-> "static"]
                  ELSE IF cfg.target_os = "windows"
                       THEN [kind |-> "lib", name |-> "zlibstatic", link |-> "dylib"]
                       ELSE [kind |-> "lib", name |-> "z", link |-> "dylib"])
            /\ cfg.target_os = "linux" =>
                 n = 3 /\ emitted[3] = [kind |-> "lib", name |-> "stdc++", link |-> "dylib"]
            /\ cfg.target_os = "macos" =>
                 n = 3 /\ emitted[3] = [kind |-> "lib", name |-> "c++", link |-> "dylib"]
            /\ cfg.target_os \in {"windows", "other"} => n = 2

(* The second example of the platform matrix: Windows, system zlib,         *)
(* dynamic link.                                                            *)
C5_Witness ==
    /\ pc = "done" /\ result = "ok"
    /\ cfg.target_os = "windows" /\ ~cfg.build_assimp /\ ~cfg.static_link
    /\ emitted = << [kind |-> "lib", name |-> "assimp", link |-> "dylib"],
                    [kind |-> "lib", name |-> "zlibstatic", link |-> "dylib"] >>

SameThree(c, d) ==
    /\ c.target_os = d.target_os
    /\ Dispatch(c) = Dispatch(d)
    /\ c.nozlib = d.nozlib

PlanShape(ds) ==
    /\ NoDuplicateNames(ds)
    /\ ds[1].name = "assimp"
    /\ \A i \in 1..Len(ds) : ds[i].name \in {"stdc++", "c++"} => i = Len(ds)

(* C6 as stated: two builds that agree on platform, strategy and zlib flag  *)
(* produce the same plan; no duplicate names, assimp first, the C++ runtime *)
(* last.                                                                    *)
C6_PureOfThree ==
    (pc = "done" /\ result = "ok") =>
        /\ PlanShape(emitted)
        /\ (lastPlan.valid /\ SameThree(cfg, lastPlan.cfg)) => emitted = lastPlan.plan

(* C6 as amended: two builds that agree on platform, strategy, zlib flag    *)
(* and link kind produce the same plan; no duplicate names, assimp first,   *)
(* the C++ runtime last.                                                    *)
C6_PureOfFour ==
    (pc = "done" /\ result = "ok") =>
        /\ PlanShape(emitted)
        /\ (/\ lastPlan.valid
            /\ SameThree(cfg, lastPlan.cfg)
            /\ cfg.static_link = lastPlan.cfg.static_link) => emitted = lastPlan.plan

C6_Witness ==
    /\ pc = "done" /\ result = "ok"
    /\ lastPlan.valid /\ SameThree(cfg, lastPlan.cfg)
    /\ cfg.static_link = lastPlan.cfg.static_link
    /\ cfg # lastPlan.cfg
    /\ Len(emitted) = 3

IsPrefixSeq(a, b) == Len(a) <= Len(b) /\ \A i \in 1..Len(a) : a[i] = b[i]

Populated(sub) ==
    IF active = "BuildFromSource"
    THEN sub \in cmakeOut
    ELSE active = "FetchPrebuilt" /\ HasChildren(fs, ar_dest_dir(cfg) \o <<sub>>)

(* C7 as stated: a finished run has emitted one search path per populated   *)
(* lib/bin subdirectory of the active strategy, none otherwise, followed by *)
(* one link directive per LibraryRef in LinkPlan order.                     *)
C7_ExactDirectives ==
    (pc = "done" /\ result = "ok") =>
        emitted =
            (IF Populated("lib")
             THEN <<[kind |-> "search", link |-> "native",
                     name |-> DirString(static_lib(cfg), "lib")]>> ELSE <<>>)
            \o (IF Populated("bin")
                THEN <<[kind |-> "search", link |-> "native",
                        name |-> DirString(static_lib(cfg), "bin")]>> ELSE <<>>)
            \o [i \in 1..Len(lib_names(cfg)) |->
                   [kind |-> "lib", name |-> lib_names(cfg)[i].name,
                    link |-> lib_names(cfg)[i].kind]]

ExpectedDirectives ==
    (IF cfg.target_os = "macos" /\ cfg.target_arch = "aarch64"
     THEN <<[kind |-> "search", link |-> "native", name |-> "/opt/homebrew/lib/"]>>
     ELSE IF cfg.target_os = "macos" /\ cfg.target_arch = "x86_64"
          THEN <<[kind |-> "search", link |-> "native", name |-> "/opt/brew/lib/"]>>
          ELSE <<>>)
    \o (IF cfg.build_assimp \/ cfg.prebuilt
        THEN IF cfg.static_link
             THEN <<[kind |-> "search", link |-> "native", name |-> "OUT_DIR/static/lib"],
                    [kind |-> "search", link |-> "native", name |-> "OUT_DIR/static/bin"]>>
             ELSE <<[kind |-> "search", link |-> "native", name |-> "OUT_DIR/dylib/lib"],
                    [kind |-> "search", link |-> "native", name |-> "OUT_DIR/dylib/bin"]>>
        ELSE <<>>)
    \o [i \in 1..Len(lib_names(cfg)) |->
           [kind |-> "lib", name |-> lib_names(cfg)[i].name,
            link |-> lib_names(cfg)[i].kind]]

(* C7 as amended: a finished run has emitted, in order, the Homebrew search *)
(* path on macOS (aarch64, x86_64), the lib and the bin search path of the  *)
(* artifact directory under BuildFromSource and FetchPrebuilt (both,        *)
(* populated or not; none under UseSystemInstalled), and one link directive *)
(* per LibraryRef in LinkPlan order with its link kind; at any moment of a  *)
(* run the directives emitted so far are a prefix of that sequence.         *)
C7_Directives ==
    /\ IsPrefixSeq(emitted, ExpectedDirectives)
    /\ (pc = "done" /\ result = "ok") => emitted = ExpectedDirectives

C7_Witness ==
    /\ pc = "done" /\ result = "ok"
    /\ active = "FetchPrebuilt"
    /\ cfg.target_os = "macos" /\ cfg.target_arch = "aarch64"
    /\ ~Populated("bin")
    /\ Len(emitted) = 6

(* C8: a run ends having emitted every directive, or fails; a fatal         *)
(* condition in any step ends the run there, and a run in which one         *)
(* occurred emits no link directive.                                        *)
C8_NoPartialSuccess ==
    /\ fatal # "none" =>
          /\ pc \in {"bfs_match", "done"}
          /\ result # "ok"
          /\ pc = "done" => result = "failed"
          /\ LinkPart(emitted) = <<>>
    /\ result = "failed" => pc = "done" /\ LinkPart(emitted) = <<>>
    /\ pc = "done" => result \in {"ok", "failed"}
    /\ result = "ok" =>
          /\ pc = "done" /\ fatal = "none"
          /\ Len(LinkPart(emitted)) = Len(lib_names(cfg))
          /\ active # "UseSystemInstalled" =>
                Len(emitted) - Len(LinkPart(emitted)) >= 2

C8_Witness ==
    /\ pc = "done" /\ result = "failed" /\ fatal = "built"
    /\ Len(emitted) >= 2
    /\ LinkPart(emitted) = <<>>

(* C9: whatever the archive holds, extraction creates nothing outside       *)
(* OUT_DIR: no path of the filesystem starts above OUT_DIR or at the root.  *)
C9_NoEscape ==
    \A p \in DOMAIN fs : p # <<>> => p[1] \notin {"..", "/"}

C9_Witness ==
    /\ pc = "es_extract" /\ idx = 3
    /\ remoteZip[1].name = <<"..", "evil">>
    /\ remoteZip[2].abs

(* C10: once the temporary archive was written, it is gone when             *)
(* ensure_submodules returns, with a path or with an error.                 *)
C10_ZipDeleted ==
    (pc = "bfs_match" /\ zipWritten) => ~Exists(fs, zip_path)

(* C11: ensure_submodules returns a path only if the marker exists at that  *)
(* moment; when the marker is still absent after fetch, extraction and      *)
(* rename it returns an error, and the native build is not invoked in a run *)
(* in which it returned an error.                                           *)
C11_PathOnlyWithMarker ==
    /\ (pc = "bfs_match" /\ esResult = "ok") => Exists(fs, assimp_cmake)
    /\ (pc = "bfs_match" /\ ~Exists(fs, assimp_cmake)) => esResult = "err"
    /\ esResult = "err" => cmakeOpts = NoOpts /\ cmakeOut = {} /\ pc # "bfs_cmake"
    /\ (pc = "bfs_cmake" \/ cmakeOpts # NoOpts) => esResult = "ok"

(* The archive came, was extracted and renamed, and holds no marker.        *)
C11_Witness ==
    /\ pc = "done" /\ result = "failed" /\ fatal = "marker"
    /\ esResult = "err" /\ net = 1
    /\ Exists(fs, assimp_dir) /\ ~Exists(fs, assimp_cmake)
    /\ cmakeOpts = NoOpts

(* C12: under FetchPrebuilt a configured override directory means that the  *)
(* archive is taken from it and no network request is ever issued, a        *)
(* missing archive there being fatal; without an override a request is      *)
(* issued exactly when the cache holds no file of the archive's name; and   *)
(* the decision that an override is configured and the path that is read    *)
(* come from the same value of RUSSIMP_PACKAGE_DIR.                         *)
C12_OverrideOneValue ==
    active = "FetchPrebuilt" =>
       /\ (env.package_dir_build \/ env.package_dir_run) => net = 0
       /\ fatal # "package_dir"
       /\ pc = "lfp_fetch" =>
             ~Exists(fs, out_dir \o <<archive_name>>) /\ ~env.package_dir_run
       /\ (pc = "lfp_unpack" /\ net = 0 /\ ~env.package_dir_run) =>
             Exists(fs, out_dir \o <<archive_name>>)

(* C13: nothing is retried: a run issues at most one network request, and a *)
(* request that fails in transport (a time-out included) ends the run as    *)
(* failed at once, with no further request, no extraction, no native build, *)
(* no binding generation and no directive emitted after it.                 *)
C13_NoRetry ==
    /\ net <= 1
    /\ fatal = "fetch" =>
          /\ net = 1
          /\ pc \in {"bfs_match", "done"}
          /\ result # "ok"
          /\ idx = 0 /\ ~zipWritten
          /\ cmakeOpts = NoOpts /\ cmakeOut = {}
          /\ configBefore = "unknown" /\ ~bindEnded
          /\ emitted = BrewDirectives(cfg)

(* A run of either fetching strategy has ended on its failed request.       *)
C13_Witness ==
    /\ pc = "done" /\ result = "failed" /\ fatal = "fetch" /\ net = 1
    /\ active = "BuildFromSource"
    /\ emitted = BrewDirectives(cfg)

(* Entry e of an archive is present below root in f, as a directory or as   *)
(* a file with the entry's bytes.                                           *)
Provided(f, root, e) ==
    \E p \in DOMAIN f :
       /\ IsPrefix(root, p) /\ p # root
       /\ p[Len(p)] = e.name[Len(e.name)]
       /\ f[p] = (IF e.isdir THEN "dir" ELSE e.data)

(* Path p below root is an entry of archive a or a directory on the way to  *)
(* one.                                                                     *)
FromArchive(a, root, p) ==
    p = root \/ \E i \in 1..Len(a) : \E j \in 1..Len(a[i].name) :
                   p[Len(p)] = a[i].name[j]

RoundTrip(f, root, a) ==
    /\ \A i \in 1..Len(a) : Provided(f, root, a[i])
    /\ \A p \in DOMAIN f : IsPrefix(root, p) => FromArchive(a, root, p)

(* The zip of ensure_submodules, once it has returned a path after an       *)
(* extraction.                                                              *)
RoundTripZip ==
    (pc = "bfs_match" /\ esResult = "ok" /\ net = 1) =>
       RoundTrip(fs, assimp_dir, remoteZip)

(* The gzip-tar of link_from_package, once unpack has returned.             *)
RoundTripTar ==
    (pc = "bind_check" /\ active = "FetchPrebuilt") =>
       RoundTrip(fs, ar_dest_dir(cfg), remoteTar)

(* C14: after a successful extraction the provisioned tree holds exactly    *)
(* the archive's files, byte for byte, and its directories: no entry is     *)
(* missing or silently skipped and nothing is left over, for the zip of     *)
(* ensure_submodules and the gzip-tar of link_from_package alike.           *)
C14_RoundTrip == RoundTripZip /\ RoundTripTar

(* C15: a run that fails while acquiring the prebuilt archive leaves the    *)
(* cache path either without a file or with the complete archive, never     *)
(* with a partial or corrupt one that a later run would take as a hit.      *)
C15_CacheNeverCorrupt ==
    (pc = "done" /\ result = "failed" /\ active = "FetchPrebuilt") =>
       \/ ~Exists(fs, out_dir \o <<archive_name>>)
       \/ fs[out_dir \o <<archive_name>>] = "tar"

TargetAbsent(f) == \A p \in DOMAIN f : ~IsPrefix(assimp_dir, p)

(* C16: with the marker absent, a stale target directory is removed before  *)
(* the request: the target does not exist when the request is sent nor      *)
(* while the archive is written and opened, so that only the extraction     *)
(* fills it, and a failed request leaves it absent.                         *)
C16_StaleRemovedFirst ==
    /\ pc \in {"es_fetch", "es_write", "es_open"} => TargetAbsent(fs)
    /\ (active = "BuildFromSource" /\ fatal \in {"fetch", "zip_write", "zip_open"})
          => TargetAbsent(fs)

(* A directory without marker was found on entry and the request failed.    *)
C16_Witness ==
    /\ pc = "done" /\ fatal = "fetch" /\ active = "BuildFromSource"
    /\ Exists(esEntry.fs, assimp_dir) /\ ~esEntry.marker
    /\ TargetAbsent(fs)

(* C17: whenever the native build is invoked, the strategy is               *)
(* BuildFromSource and the options are: shared libraries ON exactly for the *)
(* dynamic link kind, embedded zlib ON exactly when the zlib-build flag is  *)
(* on, tools and tests OFF, warnings-as-errors OFF, the library suffix      *)
(* empty, and the output directory OUT_DIR/static or OUT_DIR/dylib after    *)
(* the link kind.                                                           *)
C17_NativeOptions ==
    cmakeOpts # NoOpts =>
       /\ active = "BuildFromSource"
       /\ cmakeOpts.BUILD_SHARED_LIBS = (IF cfg.static_link THEN "OFF" ELSE "ON")
       /\ cmakeOpts.ASSIMP_BUILD_ZLIB = (IF cfg.nozlib THEN "OFF" ELSE "ON")
       /\ cmakeOpts.ASSIMP_BUILD_TESTS = "OFF"
       /\ cmakeOpts.ASSIMP_BUILD_ASSIMP_TOOLS = "OFF"
       /\ cmakeOpts.ASSIMP_WARNINGS_AS_ERRORS = "OFF"
       /\ cmakeOpts.LIBRARY_SUFFIX = ""
       /\ cmakeOpts.out_dir = (IF cfg.static_link THEN "static" ELSE "dylib")

(* A dynamic build without embedded zlib has gone through.                  *)
C17_Witness ==
    /\ pc = "done" /\ result = "ok" /\ active = "BuildFromSource"
    /\ ~cfg.static_link /\ cfg.nozlib
    /\ cmakeOpts.BUILD_SHARED_LIBS = "ON" /\ cmakeOpts.ASSIMP_BUILD_ZLIB = "OFF"
    /\ cmakeOpts.out_dir = "dylib"

Linked(name, kind) ==
    \E i \in 1..Len(emitted) :
       emitted[i] = [kind |-> "lib", name |-> name, link |-> kind]

(* C18: in a BuildFromSource run that emits its link plan, the plan matches *)
(* what cmake was asked to build: (assimp, static) is linked exactly when   *)
(* shared libraries were OFF, (zlibstatic, static) exactly when embedded    *)
(* zlib was ON, and with embedded zlib OFF the system's zlib is linked      *)
(* dynamically.                                                             *)
C18_PlanMatchesBuild ==
    (pc = "done" /\ result = "ok" /\ active = "BuildFromSource") =>
       /\ Linked("assimp", "static") <=> cmakeOpts.BUILD_SHARED_LIBS = "OFF"
       /\ Linked("assimp", "dylib") <=> cmakeOpts.BUILD_SHARED_LIBS = "ON"
       /\ Linked("zlibstatic", "static") <=> cmakeOpts.ASSIMP_BUILD_ZLIB = "ON"
       /\ cmakeOpts.ASSIMP_BUILD_ZLIB = "OFF" =>
             Linked(IF cfg.target_os = "windows" THEN "zlibstatic" ELSE "z", "dylib")
       /\ cmakeOpts.ASSIMP_BUILD_ZLIB = "ON" =>
             ~Linked("zlibstatic", "dylib") /\ ~Linked("z", "dylib")

(* A static build with the system's zlib has emitted its plan.              *)
C18_Witness ==
    /\ pc = "done" /\ result = "ok" /\ active = "BuildFromSource"
    /\ cmakeOpts.BUILD_SHARED_LIBS = "OFF" /\ cmakeOpts.ASSIMP_BUILD_ZLIB = "OFF"
    /\ Linked("assimp", "static") /\ Linked("z", "dylib")

(* C19: the MSVC augmentation is additive and non-fatal: with an MSVC       *)
(* toolchain /EHsc is passed as C flag and as C++ flag and Ninja is the     *)
(* generator exactly when ninja is found, the generator being left as it    *)
(* was, and cmake run all the same, when it is not; with any other          *)
(* toolchain no flag is added and the generator is left as it was.          *)
C19_MsvcAdditive ==
    /\ cmakeOpts # NoOpts =>
          /\ env.msvc => /\ cmakeOpts.cflags = <<"/EHsc">>
                         /\ cmakeOpts.cxxflags = <<"/EHsc">>
                         /\ cmakeOpts.generator = "Ninja" <=> env.ninja
                         /\ ~env.ninja => cmakeOpts.generator = env.generator
          /\ ~env.msvc => /\ cmakeOpts.cflags = <<>>
                          /\ cmakeOpts.cxxflags = <<>>
                          /\ cmakeOpts.generator = env.generator
    /\ (pc = "done" /\ active = "BuildFromSource" /\ esResult = "ok") =>
          cmakeOpts # NoOpts

(* An MSVC build without ninja and with a generator of the user's choice    *)
(* has gone through.                                                        *)
C19_Witness ==
    /\ pc = "done" /\ result = "ok" /\ active = "BuildFromSource"
    /\ env.msvc /\ ~env.ninja /\ env.generator = "NMake Makefiles"
    /\ cmakeOpts.cflags = <<"/EHsc">> /\ cmakeOpts.generator = "NMake Makefiles"

====
